---- MODULE Spec2Model ----
(***************************************************************************)
(* basin_stats.py: scrape NRCS basin statistics and merge them into the   *)
(* HUC topojson / geojson layers.                                          *)
(*                                                                         *)
(* Text (str) values are sequences of one-character strings, so that      *)
(* slicing, substring search and str.replace are computed as Python       *)
(* computes them.  A dict is a function whose DOMAIN is its key set.      *)
(***************************************************************************)
EXTENDS Integers, Sequences, FiniteSets, TLC

VARIABLES
    pc,           \* position of the process (Driver / Aggregator / Fetcher)
    huc_levels,   \* __main__: levels kept from the command line
    export_dirs,  \* __main__: export directories from the command line
    level_idx,    \* __main__: index of the level being processed (for loop)
    dirs,         \* file system: directory name -> "ok" | "readonly"
    files,        \* file system: path -> document
    upstream,     \* NRCS web server: url -> response
    clock,        \* wall clock, in hours (the resolution of curr_mst)
    agg,          \* locals of get_huc_nrcs_stats for the running invocation
    log,          \* events given to print_and_log, in order
    fetched,      \* get_nrcs_basin_stat calls of the running invocation
    runs,         \* one record per finished update_gis_files call
    f_call,       \* Fetcher under test: its arguments
    f_out         \* Fetcher under test: its outcome

vars == <<pc, huc_levels, export_dirs, level_idx, dirs, files, upstream,
          clock, agg, log, fetched, runs, f_call, f_out>>

(***************************************************************************)
(* Bounds of the model.                                                    *)
(***************************************************************************)
MaxChunks == 4      \* a response body is at most this many text pieces

MaxEntries == 2     \* a document holds at most this many basin entries

MaxClock == 2       \* the clock stops advancing at this hour

MaxExports == 2     \* the command line names at most this many export dirs

MaxLevels == 2      \* the command line names at most this many levels

(***************************************************************************)
(* Text helpers.                                                           *)
(***************************************************************************)
NL == "\n"

Min(S) == CHOOSE x \in S : \A y \in S : x <= y

\* s[a:b] of Python, 0 <= a <= b <= len(s)
Slice(s, a, b) == SubSeq(s, a + 1, b)

\* s[off:off+len(t)] == t
StartsAt(s, t, off) ==
    /\ off >= 0
    /\ off + Len(t) <= Len(s)
    /\ Slice(s, off, off + Len(t)) = t

\* t in s
Contains(s, t) == \E off \in 0..Len(s) : StartsAt(s, t, off)

NA == <<"N", "/", "A">>

\* stat_type_dict.get(data_type, 'Median')
StatType(data_type) ==
    IF data_type = "prec"
    THEN <<"A", "v", "e", "r", "a", "g", "e">>
    ELSE <<"M", "e", "d", "i", "a", "n">>

\* the text the look-behind of the pattern requires: "% of {stat_type} - "
Marker(data_type) ==
    <<"%", " ", "o", "f", " ">> \o StatType(data_type) \o <<" ", "-", " ">>

\* the text the look-ahead of the pattern requires: "%<br>%"
Terminator == <<"%", "<", "b", "r", ">", "%">>

\* offset where the line holding offset off ends ('.' does not match "\n")
LineEnd(s, off) ==
    CHOOSE e \in off..Len(s) :
        /\ e = Len(s) \/ s[e + 1] = NL
        /\ \A before \in off..(e - 1) : s[before + 1] # NL

\* the look-ahead finds the terminator at e, on the line of off
EndsAt(s, off, e) ==
    /\ e \in off..LineEnd(s, off)
    /\ StartsAt(s, Terminator, e)

\* the pattern matches at off: the look-behind finds the marker and (.*)
\* can end somewhere on the line
MatchesAt(s, data_type, off) ==
    /\ StartsAt(s, Marker(data_type), off - Len(Marker(data_type)))
    /\ \E e \in off..Len(s) : EndsAt(s, off, e)

\* (.*) is greedy: of the ends the match can have, the last one
GreedyEnd(s, off) ==
    CHOOSE e \in off..Len(s) :
        /\ EndsAt(s, off, e)
        /\ \A later \in (e + 1)..Len(s) : ~EndsAt(s, off, later)

\* re.search(regex, html_txt, re.MULTILINE): the leftmost offset that matches
re_search(s, data_type) ==
    IF \A off \in 0..Len(s) : ~MatchesAt(s, data_type, off)
    THEN [found |-> FALSE, start |-> 0, end |-> 0]
    ELSE LET start == CHOOSE off \in 0..Len(s) :
                        /\ MatchesAt(s, data_type, off)
                        /\ \A before \in 0..(off - 1) :
                              ~MatchesAt(s, data_type, before)
         IN  [found |-> TRUE, start |-> start, end |-> GreedyEnd(s, start)]

(***************************************************************************)
(* Basin Statistic Fetcher.                                                *)
(* A response is [exc, status_code, text]; exc = TRUE is r_get raising.   *)
(***************************************************************************)
\* the body of the try block
FetchTry(response, data_type) ==
    IF response.exc
    THEN [raised |-> TRUE, stat |-> NA, event |-> "none"]
    ELSE IF response.status_code # 200
    THEN [raised |-> FALSE, stat |-> NA, event |-> "skip"]
    ELSE LET swe_re == re_search(response.text, data_type)
         IN  IF ~swe_re.found
             THEN [raised |-> TRUE, stat |-> NA, event |-> "none"]
             ELSE [raised |-> FALSE,
                   stat   |-> Slice(response.text, swe_re.start, swe_re.end),
                   event  |-> "none"]

\* a Fetcher whose except clause is missing
FetchNoExcept(response, data_type) ==
    LET t == FetchTry(response, data_type)
    IN  [escaped |-> t.raised, stat |-> t.stat, event |-> t.event]

get_nrcs_basin_stat(response, data_type) ==
    LET t == FetchTry(response, data_type)
    IN  IF t.raised
        THEN [escaped |-> FALSE, stat |-> NA, event |-> "error"]
        ELSE [escaped |-> FALSE, stat |-> t.stat, event |-> t.event]

(***************************************************************************)
(* Response bodies the Fetcher is tried on.                                *)
(***************************************************************************)
Chunks ==
    { Marker("prec"), Marker("wteq"), Terminator, <<"%", "<", "b", "r", ">">>,
      <<NL>>, <<"8">> }

RECURSIVE TextsOf(_)
TextsOf(n) ==
    IF n = 0
    THEN {<<>>}
    ELSE LET shorter == TextsOf(n - 1)
         IN  shorter \cup {t \o c : t \in shorter, c \in Chunks}

NoResponse == [exc |-> TRUE, status_code |-> 0, text |-> <<>>]

FetchResponses ==
    {NoResponse}
      \cup [exc : {FALSE}, status_code : {200, 404}, text : TextsOf(MaxChunks)]

Idle == [none |-> TRUE]

FetchInit ==
    /\ pc = "fetch_call"
    /\ f_call \in [response : FetchResponses, data_type : {"prec", "wteq"}]
    /\ f_out = Idle
    /\ huc_levels = <<>>
    /\ export_dirs = <<>>
    /\ level_idx = 0
    /\ dirs = <<>>
    /\ files = <<>>
    /\ upstream = <<>>
    /\ clock = 0
    /\ agg = Idle
    /\ log = <<>>
    /\ fetched = <<>>
    /\ runs = <<>>

FetchCall ==
    /\ pc = "fetch_call"
    /\ f_out' = get_nrcs_basin_stat(f_call.response, f_call.data_type)
    /\ pc' = "fetch_returned"
    /\ UNCHANGED <<huc_levels, export_dirs, level_idx, dirs, files, upstream,
                   clock, agg, log, fetched, runs, f_call>>

FetchNext == FetchCall

FetchSpec == FetchInit /\ [][FetchNext]_vars

(***************************************************************************)
(* Program constants and the values of the documents.                      *)
(***************************************************************************)
USE_HUC2 == {<<"1", "3">>, <<"1", "4">>, <<"1", "6">>}

valid_hucs == <<"2", "4", "6", "8">>

data_types == <<"prec", "wteq">>

GisDir == "./gis"

Range(s) == {s[i] : i \in 1..Len(s)}

\* d[k] = v on a dict
DictSet(d, k, v) == (k :> v) @@ d

\* d.get(k, default)
DictGet(d, k, default) == IF k \in DOMAIN d THEN d[k] ELSE default

EmptyDict == <<>>

\* huc_name.replace(" ", "_")
ReplaceSpaces(s) == [i \in 1..Len(s) |-> IF s[i] = " " THEN "_" ELSE s[i]]

\* f'{huc_id}_{huc_name.replace(" ", "_")}.html'
FileName(huc_id, huc_name) ==
    huc_id \o <<"_">> \o ReplaceSpaces(huc_name) \o <<".", "h", "t", "m", "l">>

\* f'href="{file_name}"'
Href(file_name) ==
    <<"h", "r", "e", "f", "=", "\"">> \o file_name \o <<"\"">>

\* the url of an index page (chart_name = <<>>) or of a detail page
Url(data_type, huc_level, chart_name) ==
    [data_type |-> data_type, huc_level |-> huc_level, chart_name |-> chart_name]

NotFound == [exc |-> FALSE, status_code |-> 404, text |-> <<>>]

\* r_get(url, headers=REQUEST_HEADER)
r_get(url) == IF url \in DOMAIN upstream THEN upstream[url] ELSE NotFound

\* f'./gis/HUC{huc_level}.topojson', path.join(export_dir, f'HUC{huc_level}.geojson')
PathOf(dir, huc_level, ext) == <<dir, huc_level, ext>>

\* path.isdir(export_dir)
IsDir(d) == d \in DOMAIN dirs

\* open(path, 'r') and json.load succeed
Loadable(path) == path \in DOMAIN files /\ files[path].ok

\* huc_levels of __main__ from args.level (<<>> is "no -l given")
HucLevels(level_args) ==
    IF level_args = <<>>
    THEN valid_hucs
    ELSE SelectSeq(level_args, LAMBDA l : l \in Range(valid_hucs))

(***************************************************************************)
(* HUC-Level Aggregator: one entry of the loop over topo_attrs.            *)
(***************************************************************************)
\* a check that gives up on the index pages only when both requests fail
BothIndexFailed(index_pg_codes) == 200 \notin index_pg_codes

\* not set(index_pg_codes) == set([200])
IndexFailed(index_pg_codes) == index_pg_codes # {200}

\* not (not huc_id[:2] in USE_HUC2)
Included(huc_id) ==
    Slice(huc_id, 0, IF Len(huc_id) < 2 THEN Len(huc_id) ELSE 2) \in USE_HUC2

\* a condition that also re-fetches what an earlier run stored
AttemptedOrStored(a, attr, k) ==
    \/ a.try_all
    \/ Contains(a.index_page_strs[k], Href(FileName(attr.HUC, attr.Name)))
    \/ (IF k = 1 THEN "prec_percent" ELSE "swe_percent") \in DOMAIN attr.props

\* the condition of "if try_all or href in index_page_strs[k]"
Attempted(a, attr, k) ==
    \/ a.try_all
    \/ Contains(a.index_page_strs[k], Href(FileName(attr.HUC, attr.Name)))

\* the else branch of a statistic block: lines 121-123 and 138-140
NotAttempted(props, a, percent_key, updt_key) ==
    DictSet(props, percent_key, NA)

\* line 50 within the calls of lines 112-117 and 129-134: the response to
\* the detail-page request for entry attr
DetailResponse(a, attr, k) ==
    r_get(Url(data_types[k], a.huc_level, FileName(attr.HUC, attr.Name)))

\* one "if try_all or href in index_page_strs[k]: ... else: ..." block;
\* got is what the Fetcher returns for this entry and data_types[k]
StatBlock(props, a, attr, k, got, percent_key, updt_key) ==
    LET file_name == FileName(attr.HUC, attr.Name)
    IN  IF Attempted(a, attr, k)
        THEN [props   |-> DictSet(DictSet(props, percent_key, got.stat),
                                  updt_key, a.curr_mst),
              stat    |-> got.stat,
              events  |-> <<<<"getting", data_types[k], attr.Name>>>>
                            \o (IF got.event = "none"
                                THEN <<>>
                                ELSE <<<<got.event, data_types[k], file_name>>>>),
              calls   |-> <<data_types[k]>>,
              escaped |-> got.escaped]
        ELSE [props   |-> NotAttempted(props, a, percent_key, updt_key),
              stat    |-> NA,
              events  |-> <<>>,
              calls   |-> <<>>,
              escaped |-> FALSE]

\* lines 150-156: the patch of one GeoJSON feature
PatchFeature(feature, a) ==
    [feature EXCEPT !.props =
        DictSet(DictSet(DictSet(DictSet(@,
            "prec_percent", DictGet(a.prec_stat_dict, feature.Name, NA)),
            "swe_percent", DictGet(a.swe_stat_dict, feature.Name, NA)),
            "prec_updt", a.curr_mst),
            "swe_updt", a.curr_mst)]

\* lines 159-181: the export paths of one kind and the events logged for them
RECURSIVE ExportPaths(_, _, _)
ExportPaths(export_list, huc_level, ext) ==
    IF export_list = <<>>
    THEN <<>>
    ELSE (IF IsDir(Head(export_list))
          THEN <<PathOf(Head(export_list), huc_level, ext)>>
          ELSE <<>>)
         \o ExportPaths(Tail(export_list), huc_level, ext)

ExportEvents(export_list) ==
    [n \in 1..Len(export_list) |->
        IF IsDir(export_list[n])
        THEN <<"exporting", export_list[n]>>
        ELSE <<"cannot_export", export_list[n]>>]

\* open(export_path, 'w') succeeds
Writable(path) == path[1] \in DOMAIN dirs /\ dirs[path[1]] = "ok"

\* a write loop that dumps geo_json into the topology paths as well
WriteListGeoTwice(a) ==
    [n \in 1..(Len(a.geo_export_paths) + Len(a.topo_export_paths)) |->
        IF n <= Len(a.geo_export_paths)
        THEN [path |-> a.geo_export_paths[n], doc |-> a.geo_json]
        ELSE [path |-> a.topo_export_paths[n - Len(a.geo_export_paths)],
              doc  |-> a.geo_json]]

\* lines 182-187: the writes, in order, up to the first one that raises
WriteList(a) ==
    [n \in 1..(Len(a.geo_export_paths) + Len(a.topo_export_paths)) |->
        IF n <= Len(a.geo_export_paths)
        THEN [path |-> a.geo_export_paths[n], doc |-> a.geo_json]
        ELSE [path |-> a.topo_export_paths[n - Len(a.geo_export_paths)],
              doc  |-> a.topo_json]]

\* number of writes done before one raises (all of them if none raises)
WritesDone(writes) ==
    LET bad == {n \in 1..Len(writes) : ~Writable(writes[n].path)}
    IN  IF bad = {} THEN Len(writes) ELSE Min(bad) - 1

RECURSIVE WriteAll(_, _, _)
WriteAll(fs, writes, n) ==
    IF n = 0
    THEN fs
    ELSE DictSet(WriteAll(fs, writes, n - 1), writes[n].path, writes[n].doc)

(***************************************************************************)
(* The statistic values of the canonical files, entry by entry.            *)
(***************************************************************************)
StatKeys == {"prec_percent", "swe_percent"}

UpdtKeys == {"prec_updt", "swe_updt"}

StatsOf(props) == [k \in StatKeys \cap DOMAIN props |-> props[k]]

DocStats(fs, huc_level) ==
    LET topo == fs[PathOf(GisDir, huc_level, "topojson")]
        geo  == fs[PathOf(GisDir, huc_level, "geojson")]
    IN  [topo |-> [n \in 1..Len(topo.geometries) |-> StatsOf(topo.geometries[n].props)],
         geo  |-> [n \in 1..Len(geo.features) |-> StatsOf(geo.features[n].props)]]

(***************************************************************************)
(* Driver and Aggregator, step by step.                                    *)
(***************************************************************************)
NotFetching == UNCHANGED <<f_call, f_out>>

\* lines 248-252 and 190-196: the next level of the for loop
StartLevel ==
    /\ pc = "main"
    /\ level_idx <= Len(huc_levels)
    /\ dirs' = IF IsDir(GisDir) THEN dirs ELSE DictSet(dirs, GisDir, "ok")
    /\ log' = Append(log, <<"updating", huc_levels[level_idx]>>)
    /\ agg' = [huc_level |-> huc_levels[level_idx]]
    /\ pc' = "agg_index"
    /\ UNCHANGED <<huc_levels, export_dirs, level_idx, files, upstream, clock,
                   fetched, runs>>
    /\ NotFetching

\* the for loop of __main__ is exhausted
Finish ==
    /\ pc = "main"
    /\ level_idx > Len(huc_levels)
    /\ pc' = "done"
    /\ UNCHANGED <<huc_levels, export_dirs, level_idx, dirs, files, upstream,
                   clock, agg, log, fetched, runs>>
    /\ NotFetching

\* lines 73-88: the run timestamp and the two index pages
AggIndex ==
    /\ pc = "agg_index"
    /\ LET resp1 == r_get(Url(data_types[1], agg.huc_level, <<>>))
           resp2 == r_get(Url(data_types[2], agg.huc_level, <<>>))
           codes == {resp1.status_code, resp2.status_code}
       IN  IF resp1.exc \/ resp2.exc
           THEN /\ pc' = "except"
                /\ agg' = agg
                /\ log' = Append(log, <<"getting_huc", agg.huc_level>>)
           ELSE /\ pc' = "agg_load_topo"
                /\ agg' = [huc_level       |-> agg.huc_level,
                           curr_mst        |-> clock,
                           try_all         |-> IndexFailed(codes),
                           index_page_strs |->
                               IF IndexFailed(codes)
                               THEN <<<<>>, <<>>>>
                               ELSE <<resp1.text, resp2.text>>]
                /\ log' = Append(log, <<"getting_huc", agg.huc_level>>)
                            \o (IF IndexFailed(codes)
                                THEN <<<<"no_index", agg.huc_level>>>>
                                ELSE <<>>)
    /\ fetched' = <<>>
    /\ UNCHANGED <<huc_levels, export_dirs, level_idx, dirs, files, upstream,
                   clock, runs>>
    /\ NotFetching

\* lines 90-96: load the topology document
AggLoadTopo ==
    /\ pc = "agg_load_topo"
    /\ LET topo_json_path == PathOf(GisDir, agg.huc_level, "topojson")
       IN  IF ~Loadable(topo_json_path)
           THEN /\ pc' = "except"
                /\ agg' = agg
           ELSE /\ pc' = "agg_loop"
                /\ agg' = [huc_level       |-> agg.huc_level,
                           curr_mst        |-> agg.curr_mst,
                           try_all         |-> agg.try_all,
                           index_page_strs |-> agg.index_page_strs,
                           topo_json       |-> files[topo_json_path],
                           i               |-> 1,
                           prec_stat_dict  |-> EmptyDict,
                           swe_stat_dict   |-> EmptyDict]
    /\ UNCHANGED <<huc_levels, export_dirs, level_idx, dirs, files, upstream,
                   clock, log, fetched, runs>>
    /\ NotFetching

\* the Fetcher calls of entry n, as recorded in fetched
CallsOf(n, calls) == [c \in 1..Len(calls) |-> <<n, calls[c]>>]

\* lines 97-142: the loop body for entry a.i of topo_attrs, given the
\* outcomes prec and swe of its two statistic blocks; the result is the
\* locals after it, whether it raised, and what it logged and fetched
LoopBody(a, prec, swe) ==
    LET attr == a.topo_json.geometries[a.i]
    IN  IF ~Included(attr.HUC)
        THEN [agg    |-> [a EXCEPT !.i = @ + 1],
              raised |-> FALSE,
              events |-> <<>>,
              calls  |-> <<>>]
        ELSE IF prec.escaped
        THEN [agg    |-> a,
              raised |-> TRUE,
              events |-> prec.events,
              calls  |-> CallsOf(a.i, prec.calls)]
        ELSE [agg    |-> [a EXCEPT
                            !.topo_json.geometries[a.i].props = swe.props,
                            !.prec_stat_dict = DictSet(@, attr.Name, prec.stat),
                            !.swe_stat_dict = DictSet(@, attr.Name, swe.stat),
                            !.i = IF swe.escaped THEN @ ELSE @ + 1],
              raised |-> swe.escaped,
              events |-> prec.events \o swe.events,
              calls  |-> CallsOf(a.i, prec.calls \o swe.calls)]

AggEntry ==
    /\ pc = "agg_loop"
    /\ agg.i <= Len(agg.topo_json.geometries)
    /\ \E attr \in {agg.topo_json.geometries[agg.i]} :
       \E resp_prec \in {DetailResponse(agg, attr, 1)},
          resp_swe \in {DetailResponse(agg, attr, 2)} :
       \E got_prec \in {get_nrcs_basin_stat(resp_prec, data_types[1])},
          got_swe \in {get_nrcs_basin_stat(resp_swe, data_types[2])} :
       \E prec \in {StatBlock(attr.props, agg, attr, 1, got_prec,
                               "prec_percent", "prec_updt")} :
       \E swe \in {StatBlock(prec.props, agg, attr, 2, got_swe,
                              "swe_percent", "swe_updt")} :
       \E body \in {LoopBody(agg, prec, swe)} :
        /\ agg' = body.agg
        /\ pc' = IF body.raised THEN "except" ELSE pc
        /\ log' = log \o body.events
        /\ fetched' = fetched \o body.calls
    /\ UNCHANGED <<huc_levels, export_dirs, level_idx, dirs, files, upstream,
                   clock, runs>>
    /\ NotFetching

\* lines 144-181: load and patch the GeoJSON document, collect the export paths
AggLoadGeo ==
    /\ pc = "agg_loop"
    /\ agg.i > Len(agg.topo_json.geometries)
    /\ LET geo_json_path == PathOf(GisDir, agg.huc_level, "geojson")
           topo_json_path == PathOf(GisDir, agg.huc_level, "topojson")
       IN  IF ~Loadable(geo_json_path)
           THEN /\ pc' = "except"
                /\ agg' = agg
                /\ log' = log
           ELSE /\ pc' = "agg_write"
                /\ agg' = [huc_level         |-> agg.huc_level,
                           curr_mst          |-> agg.curr_mst,
                           topo_json         |-> agg.topo_json,
                           geo_json          |->
                               [files[geo_json_path] EXCEPT !.features =
                                   [n \in 1..Len(@) |-> PatchFeature(@[n], agg)]],
                           geo_export_paths  |-> <<geo_json_path>>
                               \o ExportPaths(export_dirs, agg.huc_level, "geojson"),
                           topo_export_paths |-> <<topo_json_path>>
                               \o ExportPaths(export_dirs, agg.huc_level, "topojson")]
                /\ log' = log \o ExportEvents(export_dirs)
    /\ UNCHANGED <<huc_levels, export_dirs, level_idx, dirs, files, upstream,
                   clock, fetched, runs>>
    /\ NotFetching

\* lines 182-187: write every GeoJSON path, then every topology path
AggWrite ==
    /\ pc = "agg_write"
    /\ LET writes == WriteList(agg)
           done   == WritesDone(writes)
       IN  /\ files' = WriteAll(files, writes, done)
           /\ pc' = IF done = Len(writes) THEN "agg_return" ELSE "except"
    /\ UNCHANGED <<huc_levels, export_dirs, level_idx, dirs, upstream, clock,
                   agg, log, fetched, runs>>
    /\ NotFetching

\* what update_gis_files leaves behind for the level it handled
RunRecord(ok) ==
    [huc_level |-> agg.huc_level,
     ok        |-> ok,
     curr_mst  |-> IF ok THEN agg.curr_mst ELSE 0,
     stats     |-> IF ok THEN DocStats(files, agg.huc_level) ELSE <<>>]

\* lines 201-205: the Aggregator returned
UpdateSucceeded ==
    /\ pc = "agg_return"
    /\ log' = Append(log, <<"success", agg.huc_level>>)
    /\ runs' = Append(runs, RunRecord(TRUE))
    /\ level_idx' = level_idx + 1
    /\ agg' = Idle
    /\ pc' = "main"
    /\ UNCHANGED <<huc_levels, export_dirs, dirs, files, upstream, clock, fetched>>
    /\ NotFetching

\* an update_gis_files that lets the exception through to __main__
Reraised == "crashed"

\* where control goes once the except clause has logged: back to the for loop
Handled == "main"

\* lines 206-211: the except clause of update_gis_files
UpdateFailed ==
    /\ pc = "except"
    /\ log' = Append(log, <<"failed", agg.huc_level>>)
    /\ runs' = Append(runs, RunRecord(FALSE))
    /\ level_idx' = level_idx + 1
    /\ agg' = Idle
    /\ pc' = Handled
    /\ UNCHANGED <<huc_levels, export_dirs, dirs, files, upstream, clock, fetched>>
    /\ NotFetching

\* an hour passes during the time.sleep of line 142
Tick ==
    /\ pc = "agg_loop"
    /\ clock < MaxClock
    /\ clock' = clock + 1
    /\ UNCHANGED <<pc, huc_levels, export_dirs, level_idx, dirs, files, upstream,
                   agg, log, fetched, runs>>
    /\ NotFetching

Step ==
    \/ StartLevel
    \/ Finish
    \/ AggIndex
    \/ AggLoadTopo
    \/ AggEntry
    \/ AggLoadGeo
    \/ AggWrite
    \/ UpdateSucceeded
    \/ UpdateFailed

Next == Step \/ Tick

(***************************************************************************)
(* Inputs: documents on disk, the upstream server, the command line.       *)
(***************************************************************************)
NameA == <<"U", " ", "B">>

NameB == <<"U", "_", "B">>

IdIn == <<"1", "4", "0">>

IdOut == <<"1", "7", "0">>

\* properties of a layer no run has touched, and of one an earlier run wrote
FreshProps == EmptyDict

EarlierProps ==
    [prec_percent |-> <<"5", "5">>, swe_percent |-> <<"6", "6">>,
     prec_updt |-> 0, swe_updt |-> 0]

EntriesWith(props) == [Name : {NameA, NameB}, HUC : {IdIn, IdOut}, props : {props}]

TopoDocs(props, max) ==
    {[ok |-> TRUE, geometries |-> g] :
        g \in UNION {[1..n -> EntriesWith(props)] : n \in 1..max}}

\* the GeoJSON layer of the same units
GeoDocOf(topo, props) ==
    [ok |-> TRUE,
     features |-> [n \in 1..Len(topo.geometries) |->
                      [Name |-> topo.geometries[n].Name, props |-> props]]]

Malformed == [ok |-> FALSE]

LayerFiles(huc_level, topo, geo) ==
    (PathOf(GisDir, huc_level, "topojson") :> topo)
        @@ (PathOf(GisDir, huc_level, "geojson") :> geo)

ChartA == FileName(IdIn, NameA)

IndexListing ==
    [exc |-> FALSE, status_code |-> 200,
     text |-> <<"<", "a", " ">> \o Href(ChartA) \o <<">">>]

IndexEmpty == [exc |-> FALSE, status_code |-> 200, text |-> <<"<", "p", ">">>]

Page(data_type) ==
    [exc |-> FALSE, status_code |-> 200,
     text |-> Marker(data_type)
                \o (IF data_type = "prec" THEN <<"8", "7">> ELSE <<"4", "2">>)
                \o Terminator]

\* a server that answers every level alike
UpstreamOf(index_prec, index_wteq, detail_prec, detail_wteq) ==
    [u \in {Url(dt, l, c) : dt \in Range(data_types), l \in Range(valid_hucs),
                           c \in {<<>>, ChartA}} |->
        IF u.chart_name = <<>>
        THEN (IF u.data_type = "prec" THEN index_prec ELSE index_wteq)
        ELSE (IF u.data_type = "prec" THEN detail_prec ELSE detail_wteq)]

AggUpstreams ==
    {UpstreamOf(NoResponse, NotFound, NotFound, NotFound)}
      \cup {UpstreamOf(ip, iw, dp, dw) :
              ip \in {NotFound, IndexEmpty, IndexListing},
              iw \in {NotFound, IndexEmpty, IndexListing},
              dp \in {NotFound, Page("prec")},
              dw \in {NotFound, Page("wteq")}}

NoFetcher ==
    /\ f_call = Idle
    /\ f_out = Idle

Started ==
    /\ pc = "main"
    /\ level_idx = 1
    /\ clock = 1
    /\ agg = Idle
    /\ log = <<>>
    /\ fetched = <<>>
    /\ runs = <<>>
    /\ NoFetcher

\* the same level twice (-l 6 -l 6), one export directory that exists and
\* one that does not, any layer of at most MaxEntries units, any server
Init ==
    /\ Started
    /\ huc_levels = HucLevels(<<"6", "6">>)
    /\ export_dirs = <<"/exp/a", "/exp/none">>
    /\ dirs = (GisDir :> "ok") @@ ("/exp/a" :> "ok")
    /\ \E props \in {FreshProps, EarlierProps} :
       \E topo \in TopoDocs(props, MaxEntries) :
          files = LayerFiles("6", topo, GeoDocOf(topo, props))
    /\ upstream \in AggUpstreams

Spec == Init /\ [][Next]_vars

(***************************************************************************)
(* The write phase: any list of export directories, on a file system where *)
(* a directory may be missing or read-only.                                *)
(***************************************************************************)
RECURSIVE ListsOf(_, _)
ListsOf(S, n) ==
    IF n = 0
    THEN {<<>>}
    ELSE LET shorter == ListsOf(S, n - 1)
         IN  shorter \cup {Append(l, x) : l \in shorter, x \in S}

\* a layer of one included unit that an earlier run wrote
OneUnitTopo ==
    [ok |-> TRUE,
     geometries |-> <<[Name |-> NameA, HUC |-> IdIn, props |-> EarlierProps]>>]

ServerUp == UpstreamOf(IndexListing, IndexListing, Page("prec"), Page("wteq"))

ServerDown == UpstreamOf(NoResponse, NoResponse, NoResponse, NoResponse)

WriteInit ==
    /\ Started
    /\ huc_levels = HucLevels(<<"6">>)
    /\ export_dirs \in ListsOf({"/exp/a", "/exp/b", "/exp/none"}, MaxExports)
    /\ \E b \in {"ok", "readonly"} :
          dirs = (GisDir :> "ok") @@ ("/exp/a" :> "ok") @@ ("/exp/b" :> b)
    /\ \E topo \in TopoDocs(EarlierProps, 1) :
          files = LayerFiles("6", topo, GeoDocOf(topo, EarlierProps))
                    @@ (PathOf("/exp/a", "6", "geojson") :> Malformed)
    /\ upstream \in {ServerUp, ServerDown}

WriteSpec == WriteInit /\ [][Next]_vars

(***************************************************************************)
(* The Driver: any selection of levels, on a disk where the layer of       *)
(* level 4 has no topology file and the GeoJSON of level 6 is malformed.   *)
(***************************************************************************)
DriverDisk ==
    LayerFiles("2", OneUnitTopo, GeoDocOf(OneUnitTopo, EarlierProps))
      @@ (PathOf(GisDir, "4", "geojson") :> GeoDocOf(OneUnitTopo, FreshProps))
      @@ LayerFiles("6", OneUnitTopo, Malformed)
      @@ LayerFiles("8", OneUnitTopo, GeoDocOf(OneUnitTopo, FreshProps))

\* the file systems of the Driver runs: all writable, a read-only export
\* directory, a read-only ./gis, and one where ./gis does not exist yet
DriverFileSystems ==
    { [dirs |-> (GisDir :> "ok") @@ ("/exp/b" :> "ok"), files |-> DriverDisk],
      [dirs |-> (GisDir :> "ok") @@ ("/exp/b" :> "readonly"), files |-> DriverDisk],
      [dirs |-> (GisDir :> "readonly") @@ ("/exp/b" :> "ok"), files |-> DriverDisk],
      [dirs |-> ("/exp/b" :> "ok"), files |-> EmptyDict] }

DriverInit ==
    /\ Started
    /\ \E level_args \in ListsOf({"2", "4", "6", "9"}, MaxLevels) :
          huc_levels = HucLevels(level_args)
    /\ export_dirs = <<"/exp/b">>
    /\ \E fs \in DriverFileSystems :
          /\ dirs = fs.dirs
          /\ files = fs.files
    /\ upstream \in {ServerUp, ServerDown}

\* the process keeps executing its next statement; time need not advance
DriverSpec == DriverInit /\ [][Next]_vars /\ WF_vars(Step)

(***************************************************************************)
(* Claims about the Fetcher (checked under FetchSpec).                     *)
(***************************************************************************)
FetchReturned == pc = "fetch_returned"

\* the characters of the response bodies and of "N/A"
Characters == UNION {{t[i] : i \in 1..Len(t)} : t \in Chunks \cup {NA}}

\* offsets just after an occurrence of the marker
MarkerEnds(s, data_type) ==
    {off \in 0..Len(s) :
        StartsAt(s, Marker(data_type), off - Len(Marker(data_type)))}

\* offsets of the terminators at or after offset off
TerminatorsFrom(s, off) == {e \in off..Len(s) : StartsAt(s, Terminator, e)}

\* the text between the first marker and the terminator that follows it
TextToNextTerminator(s, data_type) ==
    LET from == Min(MarkerEnds(s, data_type))
    IN  Slice(s, from, Min(TerminatorsFrom(s, from)))

\* C4: the Fetcher never lets an exception escape; for a transport
\* exception, a non-200 status, or a 200 body without the marker, the value
\* it returns is exactly "N/A".
FetcherNeverRaises ==
    FetchReturned =>
        /\ ~f_out.escaped
        /\ f_out.stat \in Seq(Characters)
        /\ ( \/ f_call.response.exc
             \/ f_call.response.status_code # 200
             \/ ~Contains(f_call.response.text, Marker(f_call.data_type)) )
           => f_out.stat = NA

\* C4 witness: a non-200 response whose body would have parsed gives "N/A".
FetcherNon200Witness ==
    /\ FetchReturned
    /\ ~f_call.response.exc
    /\ f_call.response.status_code = 404
    /\ re_search(f_call.response.text, f_call.data_type).found
    /\ f_out.stat = NA
    /\ f_out.event = "skip"

\* C8: a 200 response is parsed to exactly the text between the first
\* occurrence of the marker and the next following terminator.
FetcherReturnsTextToNextTerminator ==
    ( /\ FetchReturned
      /\ ~f_call.response.exc
      /\ f_call.response.status_code = 200
      /\ MarkerEnds(f_call.response.text, f_call.data_type) # {}
      /\ TerminatorsFrom(f_call.response.text,
                         Min(MarkerEnds(f_call.response.text,
                                        f_call.data_type))) # {} )
    => f_out.stat = TextToNextTerminator(f_call.response.text,
                                         f_call.data_type)

(***************************************************************************)
(* Claims about the Aggregator (checked under Spec).                       *)
(***************************************************************************)
\* the Aggregator has written its files and is about to return
Returned == pc = "agg_return"

WrittenTopo == files[PathOf(GisDir, agg.huc_level, "topojson")].geometries

WrittenGeo == files[PathOf(GisDir, agg.huc_level, "geojson")].features

Has(props, k, v) == k \in DOMAIN props /\ props[k] = v

\* number of Fetcher calls for entry n and data_type in this invocation
Calls(n, data_type) ==
    Cardinality({c \in 1..Len(fetched) : fetched[c] = <<n, data_type>>})

\* C1: after a run, every entry whose prefix is outside the allow-list has
\* both statistics equal to "N/A" in the written topology document and in
\* the written GeoJSON document, and no detail page was requested for it.
SkippedEntriesAreNA ==
    Returned =>
        \A n \in 1..Len(WrittenTopo) :
            ~Included(WrittenTopo[n].HUC) =>
                /\ Has(WrittenTopo[n].props, "prec_percent", NA)
                /\ Has(WrittenTopo[n].props, "swe_percent", NA)
                /\ Has(WrittenGeo[n].props, "prec_percent", NA)
                /\ Has(WrittenGeo[n].props, "swe_percent", NA)
                /\ Calls(n, "prec") = 0
                /\ Calls(n, "wteq") = 0

AllKeysSet(props) ==
    /\ StatKeys \cup UpdtKeys \subseteq DOMAIN props
    /\ \A k \in StatKeys : props[k] # <<>>

\* C2: after a run that does not raise, every geometry of the topology
\* document and every feature of the GeoJSON document has all four keys
\* prec_percent, swe_percent, prec_updt, swe_updt present and non-empty.
AllFourKeysPopulated ==
    Returned =>
        /\ \A n \in 1..Len(WrittenTopo) : AllKeysSet(WrittenTopo[n].props)
        /\ \A n \in 1..Len(WrittenGeo) : AllKeysSet(WrittenGeo[n].props)

\* C3: after the merge, a topology geometry and a GeoJSON feature that carry
\* the same Name have equal prec_percent and equal swe_percent.
DocumentsConsistent ==
    Returned =>
        \A n \in 1..Len(WrittenTopo), m \in 1..Len(WrittenGeo) :
            WrittenTopo[n].Name = WrittenGeo[m].Name =>
                StatsOf(WrittenTopo[n].props) = StatsOf(WrittenGeo[m].props)

\* the status codes of the two index pages of the running level
IndexCodes ==
    {r_get(Url(data_types[k], agg.huc_level, <<>>)).status_code : k \in 1..2}

LoopOver == pc = "agg_loop" /\ agg.i > Len(agg.topo_json.geometries)

\* C5: if either index page answers non-200, try_all is set, both index
\* pages are taken as empty text, every entry inside the allow-list is
\* fetched exactly once per statistic, and no entry outside it is fetched.
TryAllFetchesEveryIncluded ==
    (LoopOver /\ IndexCodes # {200}) =>
        /\ agg.try_all
        /\ agg.index_page_strs = <<<<>>, <<>>>>
        /\ \A n \in 1..Len(agg.topo_json.geometries) :
            \A k \in 1..2 :
                Calls(n, data_types[k]) =
                    IF Included(agg.topo_json.geometries[n].HUC) THEN 1 ELSE 0

\* C5 witness: one index page failed, the other one answered without
\* listing the basin; an included entry was fetched, a skipped one was not.
TryAllWitness ==
    /\ LoopOver
    /\ r_get(Url("prec", agg.huc_level, <<>>)) = IndexEmpty
    /\ r_get(Url("wteq", agg.huc_level, <<>>)) = NotFound
    /\ \E n, m \in 1..Len(agg.topo_json.geometries) :
        /\ Included(agg.topo_json.geometries[n].HUC)
        /\ Calls(n, "prec") = 1
        /\ Calls(n, "wteq") = 1
        /\ ~Included(agg.topo_json.geometries[m].HUC)
        /\ Calls(m, "prec") = 0

\* C9: two successive runs of the same level that both complete, with the
\* upstream unchanged, leave the same prec_percent and swe_percent values,
\* entry by entry, in both documents.
Idempotent ==
    \A r \in 1..(Len(runs) - 1) :
        ( /\ runs[r].ok
          /\ runs[r + 1].ok
          /\ runs[r].huc_level = runs[r + 1].huc_level )
        => runs[r + 1].stats = runs[r].stats

\* C9 witness: a second run at a later hour reproduced a fetched value, a
\* not-listed "N/A" and the untouched values of a skipped entry.
IdempotentWitness ==
    /\ Len(runs) = 2
    /\ runs[1].ok
    /\ runs[2].ok
    /\ runs[2].curr_mst > runs[1].curr_mst
    /\ runs[2].stats = runs[1].stats
    /\ \E n, m \in 1..Len(runs[2].stats.topo) :
        /\ Has(runs[2].stats.topo[n], "prec_percent", <<"8", "7">>)
        /\ Has(runs[2].stats.topo[n], "swe_percent", NA)
        /\ Has(runs[2].stats.topo[m], "prec_percent", <<"5", "5">>)

\* C10: after a run, every record of both written documents carries
\* prec_updt and swe_updt equal to the one timestamp of that run.
OneTimestampEverywhere ==
    Returned =>
        /\ \A n \in 1..Len(WrittenTopo) : \A k \in UpdtKeys :
              Has(WrittenTopo[n].props, k, agg.curr_mst)
        /\ \A n \in 1..Len(WrittenGeo) : \A k \in UpdtKeys :
              Has(WrittenGeo[n].props, k, agg.curr_mst)

(***************************************************************************)
(* Claims about the write phase (checked under WriteSpec).                 *)
(***************************************************************************)
FilesIn(d) == {p \in DOMAIN files : p[1] = d}

LevelEvents ==
    SelectSeq(log, LAMBDA e : e[1] \in {"updating", "success", "failed"})

\* the invocations of get_huc_nrcs_stats, by the first line each one logs
AggregatorCalls == SelectSeq(log, LAMBDA e : e[1] = "getting_huc")

\* update_gis_files ran once per selected level, in order, each level
\* finishing (success or logged failure) before the next one begins
LevelsInOrder ==
    /\ pc # "crashed"
    /\ Len(runs) <= Len(huc_levels)
    /\ \A r \in 1..Len(runs) : runs[r].huc_level = huc_levels[r]
    /\ \A j \in 1..Len(LevelEvents) :
        /\ LevelEvents[j][2] = huc_levels[(j + 1) \div 2]
        /\ IF j % 2 = 1
           THEN LevelEvents[j][1] = "updating"
           ELSE LevelEvents[j][1] =
                   (IF runs[j \div 2].ok THEN "success" ELSE "failed")
    /\ Len(LevelEvents) \in {2 * Len(runs), 2 * Len(runs) + 1}
    /\ \A j \in 1..Len(AggregatorCalls) : AggregatorCalls[j][2] = huc_levels[j]
    /\ Len(AggregatorCalls) \in {Len(runs), Len(runs) + 1}
    /\ pc = "done" => Len(AggregatorCalls) = Len(huc_levels)

AllLevelsDone ==
    /\ pc = "done"
    /\ Len(runs) = Len(huc_levels)

\* C6: one level's failure never aborts the remaining levels: the failure is
\* caught, the Aggregator is invoked exactly once for each selected level in
\* the selected order, and the run reaches the end of the level list.
EveryLevelHandled == []LevelsInOrder /\ <>AllLevelsDone

\* C6 witness: the run ended after a level that failed and a later level
\* that succeeded.
FailureThenSuccessWitness ==
    /\ AllLevelsDone
    /\ \E r \in 1..(Len(runs) - 1) : ~runs[r].ok /\ runs[r + 1].ok

====
